---- MODULE Spec2Model ----
(***************************************************************************)
(* Model of SideCar's TrackMaintainer algorithm (the keyed track database, *)
(* its virtual-clock offset epoch_, the periodic checkDatabase sweep) and  *)
(* of the Threading primitives (Mutex, Condition, Locker) it is run under. *)
(*                                                                         *)
(* Times are integers: Time::TimeStamp::asDouble() and getExtractionTime() *)
(* are doubles in the source; the model keeps their order and arithmetic   *)
(* and leaves floating-point rounding out.                                 *)
(***************************************************************************)
EXTENDS Integers, Sequences, FiniteSets, TLC

(***************************************************************************)
(* Bounds of the model.                                                    *)
(***************************************************************************)
MaxKey == 2
MaxNow == 3
MaxEvent == 1
MaxHist == 2
MaxHits == 2
MaxMisses == 1
ReplayShift == 3
MaxThread == 3
MaxCount == 2
MaxDispatchHist == 1
MaxCaller == 2
MaxSpurious == 1
MaxReconfig == 2

Keys == 1..MaxKey
EventTimes == 0..MaxEvent

\* RadarConfig::GetRotationDuration() as the radar is configured at start-up.
RotationDuration == 1

\* Track::Type values read by checkDatabase.
TrackTypes == {"kTentative", "kConfirmed"}

\* Track::Flags values (the cases of the switch in checkDatabase).
TrackFlags == {"kDropping", "kNew", "kPromoted", "kNeedsPrediction",
               "kNeedsCorrection", "kPredicted", "kCorrected"}

\* A Messages::Track as far as the algorithm reads it.
TrackMsg == [time : EventTimes, type : TrackTypes]

\* An empty Messages::Track::Ref (the default-constructed report).
NoReport == [key |-> 0, flags |-> "none", type |-> "none", time |-> 0]

\* No message has been folded into the database yet.
NoFold == [at |-> -1, time |-> -1]

\* epoch_ has no initialiser in the constructor: any value.
UninitEpoch == {-1, 0}

VARIABLES
    trackDatabase_,     \* Mapping: track number -> TrackMsgVector
    epoch_,             \* offset between wall time and message time
    hitsBeforePromote_, \* parameter value
    missesBeforeDrop_,  \* parameter value
    rotationDuration,   \* what RadarConfig::GetRotationDuration() returns
    now,                \* Time::TimeStamp::Now()
    sent,               \* reports given to send() by the last handler
    lastOp,             \* the handler that ran last
    lastFlags,          \* getFlags() of the last message given to processInput
    consecutive,        \* the last two handlers were both processAlarm
    lastFolded,         \* wall time and event time of the last update
    visited,            \* the keys the last sweep evaluated, in order
    replayDatabase,     \* trackDatabase_ of a second run fed shifted event times
    replayEpoch,        \* epoch_ of the second run
    replaySent,         \* reports of the second run's last handler
    mutex,              \* the pthread_mutex_t of a Mutex: owner and lock count
    tpc,                \* where each thread is: ready, waiting, woken
    lockers,            \* the live Locker of each thread, if any
    holds,              \* locks each thread has acquired and not released
    lastCall,           \* the last Threading call that returned, and how
    waits,              \* the wait each thread is in, and what woke it
    inPc,               \* the input thread's position in processInput
    inArg,              \* the message the input thread is processing
    alPc,               \* the alarm thread's position in processAlarm
    alIt,               \* checkDatabase's iterator it
    alDropLimit,        \* checkDatabase's local dropLimit
    started_,           \* Thread::started_
    running_,           \* Thread::running_
    tid_,               \* Thread::tid_: the state of the system thread
    condMutex,          \* the mutex of Thread::condition_
    cpc,                \* where each caller of the Thread's methods is
    spc,                \* where the spawned thread is in runWrapper
    lastReturn,         \* the last Thread method that returned, and how
    spurious,           \* spurious wake-ups on Thread::condition_ so far
    onceControl_,       \* Guard::onceControl_
    guardMutexes,       \* the mutexes Guard::Init has made; mutex_ is the last
    gpc                 \* where each thread is in Guard's methods

engineVars == <<trackDatabase_, epoch_, hitsBeforePromote_, missesBeforeDrop_,
                rotationDuration, now, sent, lastOp, lastFlags, consecutive,
                lastFolded, visited>>

replayVars == <<replayDatabase, replayEpoch, replaySent>>

mutexVars == <<mutex, tpc, lockers, holds, lastCall, waits>>

dispatchVars == <<inPc, inArg, alPc, alIt, alDropLimit>>

threadVars == <<started_, running_, tid_, condMutex, cpc, spc, lastReturn,
                spurious>>

guardVars == <<onceControl_, guardMutexes, gpc>>

runtimeVars == <<threadVars, guardVars>>

vars == <<engineVars, replayVars, mutexVars, dispatchVars, runtimeVars>>

(***************************************************************************)
(* TrackMaintainer::processInput, TrackMaintainer::updateDatabase          *)
(***************************************************************************)

\* (variant: every flag but kDropping is folded in)
ShouldUpdateAllButDropping(flags) == flags # "kDropping"

\* processInput's test of the message flags.
ShouldUpdate(flags) == flags = "kNew" \/ flags = "kCorrected"

\* find(), and insert() of an empty TrackMsgVector when the key is absent.
FindOrInsert(db, key) ==
    IF key \in DOMAIN db THEN db ELSE db @@ (key :> <<>>)

\* (variant: the entry is found or created, and nothing is added to it)
PushBackSkipped(db, key, msg) == db

\* (variant: the message is put in front of the vector)
PushFront(db, key, msg) == [db EXCEPT ![key] = <<msg>> \o @]

\* it->second.push_back(msg)
PushBack(db, key, msg) == [db EXCEPT ![key] = Append(@, msg)]

\* (variant: the offset is derived from the wall clock alone)
NewEpochWallClockOnly(clk, msg) == clk

\* epoch_ = now.asDouble() - msg->getExtractionTime()
NewEpoch(clk, msg) == clk - msg.time

UpdateDatabase(db, key, msg) == PushBack(FindOrInsert(db, key), key, msg)

(***************************************************************************)
(* TrackMaintainer::checkDatabase                                          *)
(***************************************************************************)

\* double dropLimit = RadarConfig::GetRotationDuration() * missesBeforeDrop_
DropLimit(misses) == rotationDuration * misses

\* tracks.back()
Back(tracks) == tracks[Len(tracks)]

\* Track::Make("TrackMaintainer", track) followed by setFlags(flags)
MakeReport(key, track, flags) ==
    [key |-> key, flags |-> flags, type |-> track.type, time |-> track.time]

\* the promotion test
Promotable(tracks, hits) ==
    Back(tracks).type = "kTentative" /\ Len(tracks) >= hits

\* (variant: raw wall clock minus event time, without the offset)
ElapsedUncalibrated(tracks, ep, clk) == clk - Back(tracks).time

\* the drop test
Elapsed(tracks, ep, clk) == clk - (ep + Back(tracks).time)

Droppable(tracks, ep, clk, dropLimit) == Elapsed(tracks, ep, clk) > dropLimit

\* (variant: the promotion report is not overwritten by the dropping report)
EntryReportPromotionWins(key, tracks, ep, clk, dropLimit, hits) ==
    IF Promotable(tracks, hits)
    THEN MakeReport(key, Back(tracks), "kPromoted")
    ELSE IF Droppable(tracks, ep, clk, dropLimit)
         THEN MakeReport(key, Back(tracks), "kDropping")
         ELSE NoReport

\* The report of one loop iteration: the promotion report, overwritten by
\* the dropping report when the track is dropped.
EntryReport(key, tracks, ep, clk, dropLimit, hits) ==
    LET promoted == IF Promotable(tracks, hits)
                    THEN MakeReport(key, Back(tracks), "kPromoted")
                    ELSE NoReport
    IN  IF Droppable(tracks, ep, clk, dropLimit)
        THEN MakeReport(key, Back(tracks), "kDropping")
        ELSE promoted

\* (variant: a track that is kept is stored as confirmed)
EntryDatabaseConfirming(db, key, ep, clk, dropLimit) ==
    IF Droppable(db[key], ep, clk, dropLimit)
    THEN [k \in DOMAIN db \ {key} |-> db[k]]
    ELSE [db EXCEPT ![key][Len(db[key])].type = "kConfirmed"]

\* (variant: the dropped entry is reported but not erased)
EntryDatabaseNoErase(db, key, ep, clk, dropLimit) == db

\* trackDatabase_.erase(it++) when dropped, otherwise the map is untouched.
EntryDatabase(db, key, ep, clk, dropLimit) ==
    IF Droppable(db[key], ep, clk, dropLimit)
    THEN [k \in DOMAIN db \ {key} |-> db[k]]
    ELSE db

\* Mapping::iterator: a key of the map, or End. The map iterates in key
\* order.
End == 0

Begin(db) ==
    IF DOMAIN db = {} THEN End
    ELSE CHOOSE k \in DOMAIN db : \A j \in DOMAIN db : k <= j

\* (variant: the element after the current one is passed over)
IncrSkipping(db, it) ==
    LET later == {k \in DOMAIN db : k > it + 1}
    IN  IF later = {} THEN End
        ELSE CHOOSE k \in later : \A j \in later : k <= j

\* it++ : the next key of the map after it.
Incr(db, it) ==
    LET later == {k \in DOMAIN db : k > it}
    IN  IF later = {} THEN End
        ELSE CHOOSE k \in later : \A j \in later : k <= j

\* if (report) send(report)
Send(out, report) == IF report = NoReport THEN out ELSE Append(out, report)

\* One iteration of the while loop at iterator it; the clock reading of the
\* iteration is clk + adv[it]. seen lists the keys the loop body ran for.
RECURSIVE Sweep(_, _, _, _, _, _, _, _)
Sweep(db, it, out, ep, clk, adv, dropLimit, hits) ==
    IF it = End THEN [db |-> db, sent |-> out, clk |-> clk, seen |-> <<>>]
    ELSE LET t      == clk + adv[it]
             report == EntryReport(it, db[it], ep, t, dropLimit, hits)
             next   == Incr(db, it)
             db2    == EntryDatabase(db, it, ep, t, dropLimit)
             rest   == Sweep(db2, next, Send(out, report), ep, t, adv,
                             dropLimit, hits)
         IN  [rest EXCEPT !.seen = <<it>> \o @]

CheckDatabase(db, ep, clk, adv, misses, hits) ==
    Sweep(db, Begin(db), <<>>, ep, clk, adv, DropLimit(misses), hits)

\* The time that passes between the clock readings of one sweep.
Advances == [Keys -> 0..1]

RECURSIVE SumOver(_, _)
SumOver(f, S) ==
    IF S = {} THEN 0
    ELSE LET k == CHOOSE k \in S : TRUE IN f[k] + SumOver(f, S \ {k})

(***************************************************************************)
(* The handlers, each run to completion by the Controller's dispatch.      *)
(***************************************************************************)

\* The TrackMaintainer after its constructor and startup().
Constructed ==
    /\ trackDatabase_ = <<>>
    /\ epoch_ \in UninitEpoch
    /\ hitsBeforePromote_ \in 1..MaxHits
    /\ missesBeforeDrop_ \in 1..MaxMisses
    /\ rotationDuration = RotationDuration
    /\ now = 0
    /\ sent = <<>>
    /\ lastOp = "startup"
    /\ lastFlags = "none"
    /\ consecutive = FALSE
    /\ lastFolded = NoFold
    /\ visited = <<>>

\* The second run is not started.
ReplayIdle ==
    /\ replayDatabase = <<>>
    /\ replayEpoch = 0
    /\ replaySent = <<>>

\* The wall clock advances.
Tick ==
    /\ now < MaxNow
    /\ now' = now + 1
    /\ UNCHANGED <<trackDatabase_, epoch_, hitsBeforePromote_, missesBeforeDrop_,
                   rotationDuration,
                   sent, lastOp, lastFlags, consecutive, lastFolded, visited>>

ProcessInput(key, msg, flags) ==
    /\ key \in DOMAIN trackDatabase_ => Len(trackDatabase_[key]) < MaxHist
    /\ IF ShouldUpdate(flags)
       THEN /\ trackDatabase_' = UpdateDatabase(trackDatabase_, key, msg)
            /\ epoch_' = NewEpoch(now, msg)
            /\ lastFolded' = [at |-> now, time |-> msg.time]
       ELSE UNCHANGED <<trackDatabase_, epoch_, lastFolded>>
    /\ sent' = <<>>
    /\ lastOp' = "processInput"
    /\ lastFlags' = flags
    /\ consecutive' = FALSE
    /\ visited' = <<>>
    /\ UNCHANGED <<hitsBeforePromote_, missesBeforeDrop_,
                   rotationDuration, now>>

ProcessAlarm(adv) ==
    /\ now + SumOver(adv, DOMAIN trackDatabase_) <= MaxNow
    /\ LET r == CheckDatabase(trackDatabase_, epoch_, now, adv,
                              missesBeforeDrop_, hitsBeforePromote_)
       IN  /\ trackDatabase_' = r.db
           /\ sent' = r.sent
           /\ now' = r.clk
           /\ visited' = r.seen
    /\ lastOp' = "processAlarm"
    /\ lastFlags' = "none"
    /\ consecutive' = (lastOp = "processAlarm")
    /\ UNCHANGED <<epoch_, hitsBeforePromote_, missesBeforeDrop_,
                   rotationDuration, lastFolded>>

\* (variant: reset leaves the database as it is)
ResetKeepsDatabase ==
    /\ sent' = <<>>
    /\ lastOp' = "reset"
    /\ lastFlags' = "none"
    /\ consecutive' = FALSE
    /\ visited' = <<>>
    /\ UNCHANGED <<trackDatabase_, epoch_, hitsBeforePromote_, missesBeforeDrop_,
                   rotationDuration,
                   now, lastFolded>>

Reset ==
    /\ trackDatabase_' = <<>>
    /\ sent' = <<>>
    /\ lastOp' = "reset"
    /\ lastFlags' = "none"
    /\ consecutive' = FALSE
    /\ visited' = <<>>
    /\ UNCHANGED <<epoch_, hitsBeforePromote_, missesBeforeDrop_,
                   rotationDuration, now, lastFolded>>

Shutdown ==
    /\ trackDatabase_' = <<>>
    /\ sent' = <<>>
    /\ lastOp' = "shutdown"
    /\ lastFlags' = "none"
    /\ consecutive' = FALSE
    /\ visited' = <<>>
    /\ UNCHANGED <<epoch_, hitsBeforePromote_, missesBeforeDrop_,
                   rotationDuration, now, lastFolded>>

(***************************************************************************)
(* Threading.h: Mutex, Condition, Locker over pthreads.                    *)
(***************************************************************************)

Threads == 1..MaxThread
NoThread == 0

\* (variant: Mutex::Make with a default kind that checks nothing)
MutexKindNormal == "PTHREAD_MUTEX_NORMAL"

\* (variant: Mutex::Make with a recursive default kind)
MutexKindRecursive == "PTHREAD_MUTEX_RECURSIVE"

\* The default kind of Mutex::Make and of the Mutex constructor; the kind
\* of the mutex Condition::Make() creates.
MutexKind == "PTHREAD_MUTEX_ERRORCHECK"

Unlocked == [owner |-> NoThread, count |-> 0]

\* pthread_mutex_lock by thread t: the outcomes with which the call
\* returns. No outcome: the call blocks (another thread owns the mutex, or
\* the caller relocks a normal mutex).
PthreadMutexLock(mtx, t) ==
    IF mtx.owner = NoThread
    THEN {[rc |-> "OK", mtx |-> [owner |-> t, count |-> 1]]}
    ELSE IF mtx.owner # t THEN {}
    ELSE IF MutexKind = "PTHREAD_MUTEX_ERRORCHECK"
         THEN {[rc |-> "EDEADLK", mtx |-> mtx]}
    ELSE IF MutexKind = "PTHREAD_MUTEX_RECURSIVE"
         THEN {[rc |-> "OK", mtx |-> [mtx EXCEPT !.count = @ + 1]]}
    ELSE {}

\* pthread_mutex_trylock by thread t; it never blocks. A mutex another
\* thread owns is busy; a relock by the owner is reported as an error by
\* the error-checking kind, succeeds for the recursive kind and is busy for
\* the normal kind.
PthreadMutexTrylock(mtx, t) ==
    IF mtx.owner = NoThread
    THEN {[rc |-> "OK", mtx |-> [owner |-> t, count |-> 1]]}
    ELSE IF mtx.owner # t THEN {[rc |-> "EBUSY", mtx |-> mtx]}
    ELSE IF MutexKind = "PTHREAD_MUTEX_ERRORCHECK"
         THEN {[rc |-> "EDEADLK", mtx |-> mtx]}
    ELSE IF MutexKind = "PTHREAD_MUTEX_RECURSIVE"
         THEN {[rc |-> "OK", mtx |-> [mtx EXCEPT !.count = @ + 1]]}
    ELSE {[rc |-> "EBUSY", mtx |-> mtx]}

\* The mutex after its owner released it once.
Released(mtx) ==
    IF mtx.count > 1 THEN [mtx EXCEPT !.count = @ - 1] ELSE Unlocked

\* pthread_mutex_unlock by thread t. By a thread that is not the owner it
\* is an error for the error-checking and recursive kinds and undefined
\* for the normal kind (the mutex is released, or nothing happens).
PthreadMutexUnlock(mtx, t) ==
    IF mtx.owner = t
    THEN {[rc |-> "OK", mtx |-> Released(mtx)]}
    ELSE IF MutexKind = "PTHREAD_MUTEX_NORMAL"
         THEN {[rc |-> "OK", mtx |-> Unlocked], [rc |-> "OK", mtx |-> mtx]}
    ELSE {[rc |-> "EPERM", mtx |-> mtx]}

Called(t, op, res) == [thread |-> t, op |-> op, res |-> res]

\* A thread that is in no wait.
NoWait == [call |-> "none", by |-> "none"]

Acquire(t) == [holds EXCEPT ![t] = @ + 1]

Release(t) == [holds EXCEPT ![t] = IF @ > 0 THEN @ - 1 ELSE 0]

MutexIdle ==
    /\ mutex = Unlocked
    /\ tpc = [t \in Threads |-> "ready"]
    /\ lockers = [t \in Threads |-> "none"]
    /\ holds = [t \in Threads |-> 0]
    /\ lastCall = Called(NoThread, "none", "none")
    /\ waits = [t \in Threads |-> NoWait]

\* Mutex::lock(): FailedLock when pthread_mutex_lock reports an error.
MutexLock(t) ==
    /\ tpc[t] = "ready"
    /\ lockers[t] = "none"
    /\ holds[t] < MaxCount
    /\ \E o \in PthreadMutexLock(mutex, t) :
          /\ mutex' = o.mtx
          /\ IF o.rc = "OK"
             THEN /\ holds' = Acquire(t)
                  /\ lastCall' = Called(t, "lock", "ok")
             ELSE /\ holds' = holds
                  /\ lastCall' = Called(t, "lock", "FailedLock")
    /\ UNCHANGED <<tpc, lockers, waits>>

\* Mutex::tryToLock(): true when the mutex was acquired, false when it is
\* locked by another thread, FailedLock on any other result.
MutexTryToLock(t) ==
    /\ tpc[t] = "ready"
    /\ lockers[t] = "none"
    /\ holds[t] < MaxCount
    /\ \E o \in PthreadMutexTrylock(mutex, t) :
          /\ mutex' = o.mtx
          /\ holds' = IF o.rc = "OK" THEN Acquire(t) ELSE holds
          /\ lastCall' = Called(t, "tryToLock",
                                IF o.rc = "OK" THEN "true"
                                ELSE IF o.rc = "EBUSY" THEN "false"
                                ELSE "FailedLock")
    /\ UNCHANGED <<tpc, lockers, waits>>

\* Mutex::unlock(): FailedUnlock when pthread_mutex_unlock reports an error.
\* The body of a Locker's scope does not unlock the Locker's mutex itself.
MutexUnlock(t) ==
    /\ tpc[t] = "ready"
    /\ lockers[t] = "none"
    /\ \E o \in PthreadMutexUnlock(mutex, t) :
          /\ mutex' = o.mtx
          /\ IF o.rc = "OK"
             THEN /\ holds' = Release(t)
                  /\ lastCall' = Called(t, "unlock", "ok")
             ELSE /\ holds' = holds
                  /\ lastCall' = Called(t, "unlock", "FailedUnlock")
    /\ UNCHANGED <<tpc, lockers, waits>>

\* Locker::Locker(const Mutex::Ref&) and Locker::Locker(const
\* Condition::Ref&): lock the mutex, or the condition's mutex. When lock()
\* throws, no Locker exists.
LockerCtor(t, on) ==
    /\ tpc[t] = "ready"
    /\ lockers[t] = "none"
    /\ holds[t] < MaxCount
    /\ \E o \in PthreadMutexLock(mutex, t) :
          /\ mutex' = o.mtx
          /\ IF o.rc = "OK"
             THEN /\ holds' = Acquire(t)
                  /\ lockers' = [lockers EXCEPT ![t] = on]
                  /\ lastCall' = Called(t, "Locker", "ok")
             ELSE /\ holds' = holds
                  /\ lockers' = lockers
                  /\ lastCall' = Called(t, "Locker", "FailedLock")
    /\ UNCHANGED <<tpc, waits>>

\* Locker::~Locker(), run when the scope is left by path: unlock the mutex.
LockerDtor(t, path) ==
    /\ tpc[t] = "ready"
    /\ lockers[t] # "none"
    /\ \E o \in PthreadMutexUnlock(mutex, t) :
          /\ mutex' = o.mtx
          /\ holds' = IF o.rc = "OK" THEN Release(t) ELSE holds
    /\ lockers' = [lockers EXCEPT ![t] = "none"]
    /\ lastCall' = Called(t, "~Locker", path)
    /\ UNCHANGED <<tpc, waits>>

ExitPaths == {"return", "earlyReturn", "failure"}

\* The calls that wait on the Condition.
WaitCalls == {"waitForSignal", "timedWaitForSignal"}

\* Condition::waitForSignal() and Condition::timedWaitForSignal(duration):
\* release the mutex and block; by a thread that does not own the mutex,
\* FailedWaitForSignal / FailedTimedWaitForSignal.
WaitForSignal(t, call) ==
    /\ tpc[t] = "ready"
    /\ IF mutex.owner = t
       THEN /\ mutex' = Released(mutex)
            /\ holds' = Release(t)
            /\ tpc' = [tpc EXCEPT ![t] = "waiting"]
            /\ waits' = [waits EXCEPT ![t] = [call |-> call, by |-> "none"]]
            /\ lastCall' = lastCall
       ELSE /\ lastCall' = Called(t, call,
                                  IF call = "waitForSignal"
                                  THEN "FailedWaitForSignal"
                                  ELSE "FailedTimedWaitForSignal")
            /\ UNCHANGED <<mutex, holds, tpc, waits>>
    /\ UNCHANGED lockers

Waiters == {w \in Threads : tpc[w] = "waiting"}

\* The blocked threads in ws are woken, by cause.
Wake(ws, cause) ==
    /\ tpc' = [w \in Threads |-> IF w \in ws THEN "woken" ELSE tpc[w]]
    /\ waits' = [w \in Threads |->
                    IF w \in ws THEN [waits[w] EXCEPT !.by = cause]
                    ELSE waits[w]]

\* (variant: signal wakes every blocked thread)
SignalledAll(ws) == {ws}

\* pthread_cond_signal: the sets of threads it may wake, out of the blocked
\* threads ws: one of them, none when none is blocked.
Signalled(ws) == IF ws = {} THEN {{}} ELSE {{w} : w \in ws}

\* Condition::signal(): one of the blocked threads, if any, is woken.
Signal(t) ==
    /\ tpc[t] = "ready"
    /\ \E ws \in Signalled(Waiters) : Wake(ws, "signal")
    /\ lastCall' = Called(t, "signal", "ok")
    /\ UNCHANGED <<mutex, lockers, holds>>

\* Condition::broadcast(): every blocked thread is woken.
Broadcast(t) ==
    /\ tpc[t] = "ready"
    /\ Wake(Waiters, "broadcast")
    /\ lastCall' = Called(t, "broadcast", "ok")
    /\ UNCHANGED <<mutex, lockers, holds>>

\* A wake-up without a signal, which pthread_cond_wait permits.
SpuriousWakeup(w) ==
    /\ tpc[w] = "waiting"
    /\ Wake({w}, "spurious")
    /\ UNCHANGED <<mutex, lockers, holds, lastCall>>

\* The duration of a timedWaitForSignal elapses with the thread still
\* blocked.
Timeout(w) ==
    /\ tpc[w] = "waiting"
    /\ waits[w].call = "timedWaitForSignal"
    /\ Wake({w}, "timeout")
    /\ UNCHANGED <<mutex, lockers, holds, lastCall>>

\* What the wait call returns: waitForSignal nothing, timedWaitForSignal
\* false when it timed out and true otherwise.
WaitResult(w) ==
    IF w.call = "waitForSignal" THEN "ok"
    ELSE IF w.by = "timeout" THEN "false" ELSE "true"

\* The return of waitForSignal() or timedWaitForSignal(): the thread has
\* acquired the mutex again.
WaitReturn(w) ==
    /\ tpc[w] = "woken"
    /\ \E o \in PthreadMutexLock(mutex, w) :
          /\ o.rc = "OK"
          /\ mutex' = o.mtx
    /\ holds' = Acquire(w)
    /\ tpc' = [tpc EXCEPT ![w] = "ready"]
    /\ waits' = [waits EXCEPT ![w] = NoWait]
    /\ lastCall' = Called(w, waits[w].call, WaitResult(waits[w]))
    /\ UNCHANGED lockers

(***************************************************************************)
(* Threading.h: Thread. One Thread instance, the threads that call its     *)
(* methods, and the thread it spawns, which executes runWrapper:           *)
(* announceStarted, run, announceFinished.                                 *)
(***************************************************************************)

Callers == 1..MaxCaller

\* pthread_self() of the spawned thread.
Spawned == MaxCaller + 1

\* (variant: the constructor sets started_)
StartedAtConstructionTrue == TRUE

\* Thread::Thread(): started_(false)
StartedAtConstruction == FALSE

\* (variant: the constructor sets running_)
RunningAtConstructionTrue == TRUE

\* Thread::Thread(): running_(false)
RunningAtConstruction == FALSE

\* A caller's position: the method it is in, and where in it.
At(op, at) == [op |-> op, at |-> at]

Idle == At("none", "idle")

\* The spawned thread's position: the part of runWrapper, and where in it.
In(part, at) == [in |-> part, at |-> at]

NotCreated == In("none", "none")

\* The Thread after its constructor: condition_(Condition::Make()), whose
\* mutex is Mutex::Make() of the default kind.
ThreadCtor ==
    /\ started_ = StartedAtConstruction
    /\ running_ = RunningAtConstruction
    /\ tid_ = "unstarted"
    /\ condMutex = Unlocked
    /\ cpc = [c \in Callers |-> Idle]
    /\ spc = NotCreated
    /\ lastReturn = Called(NoThread, "none", "none")
    /\ spurious = 0

\* Locker lock(condition_): returns when the mutex has been acquired.
CondLock(t) ==
    \E o \in PthreadMutexLock(condMutex, t) : o.rc = "OK" /\ condMutex' = o.mtx

\* The Locker's destructor.
CondUnlock(t) ==
    \E o \in PthreadMutexUnlock(condMutex, t) : condMutex' = o.mtx

\* The callers blocked in condition_->waitForSignal().
CondWaiters == {c \in Callers : cpc[c].at = "waiting"}

CondWake(ws) ==
    cpc' = [c \in Callers |->
               IF c \in ws THEN [cpc[c] EXCEPT !.at = "woken"] ELSE cpc[c]]

\* start() is called on an instance whose system thread has not been
\* created, by one caller at a time.
CanStart == tid_ = "unstarted" /\ \A c \in Callers : cpc[c].op # "start"

\* start() and waitToFinish() begin with Locker lock(condition_).
Enter(c, op) ==
    /\ cpc[c] = Idle
    /\ op = "start" => CanStart
    /\ CondLock(c)
    /\ cpc' = [cpc EXCEPT
                 ![c] = At(op, IF op = "start" THEN "create" ELSE "check")]
    /\ UNCHANGED <<started_, running_, tid_, spc, lastReturn, spurious>>

\* start(): pthread_create, which returns rc; FailedCreate when it fails.
StartCreate(c, rc) ==
    /\ cpc[c] = At("start", "create")
    /\ IF rc = "OK"
       THEN /\ tid_' = "joinable"
            /\ spc' = In("announceStarted", "lock")
            /\ cpc' = [cpc EXCEPT ![c] = At("start", "check")]
            /\ UNCHANGED <<condMutex, lastReturn>>
       ELSE /\ CondUnlock(c)
            /\ cpc' = [cpc EXCEPT ![c] = Idle]
            /\ lastReturn' = Called(c, "start", "FailedCreate")
            /\ UNCHANGED <<tid_, spc>>
    /\ UNCHANGED <<started_, running_, spurious>>

\* The loop conditions: start() waits while (!started_), waitToFinish()
\* while (running_).
Awaited(op) == IF op = "start" THEN ~started_ ELSE running_

\* The test of the loop condition: go on to wait, or return (the Locker's
\* destructor releases the mutex).
Check(c) ==
    /\ cpc[c].at = "check"
    /\ IF Awaited(cpc[c].op)
       THEN /\ cpc' = [cpc EXCEPT ![c] = [@ EXCEPT !.at = "wait"]]
            /\ UNCHANGED <<condMutex, lastReturn>>
       ELSE /\ CondUnlock(c)
            /\ cpc' = [cpc EXCEPT ![c] = Idle]
            /\ lastReturn' = Called(c, cpc[c].op, "ok")
    /\ UNCHANGED <<started_, running_, tid_, spc, spurious>>

\* condition_->waitForSignal(): the mutex is released and the caller blocks.
Wait(c) ==
    /\ cpc[c].at = "wait"
    /\ condMutex' = Released(condMutex)
    /\ cpc' = [cpc EXCEPT ![c] = [@ EXCEPT !.at = "waiting"]]
    /\ UNCHANGED <<started_, running_, tid_, spc, lastReturn, spurious>>

\* waitForSignal() returns to the loop: the woken caller has the mutex.
Resume(c) ==
    /\ cpc[c].at = "woken"
    /\ CondLock(c)
    /\ cpc' = [cpc EXCEPT ![c] = [@ EXCEPT !.at = "check"]]
    /\ UNCHANGED <<started_, running_, tid_, spc, lastReturn, spurious>>

\* A wake-up of a waiting caller without a signal.
SpuriousWake(c) ==
    /\ cpc[c].at = "waiting"
    /\ spurious < MaxSpurious
    /\ spurious' = spurious + 1
    /\ CondWake({c})
    /\ UNCHANGED <<started_, running_, tid_, condMutex, spc, lastReturn>>

\* (variant: only a thread that was joined is refused)
JoinableUnlessJoined(st) == st # "joined"

\* pthread_join accepts a thread that was neither detached nor joined.
Joinable(st) == st = "joinable"

\* join() and detach() are called on a started instance, not while another
\* join() is blocked on it.
NoJoinInProgress == \A c \in Callers : cpc[c].op # "join"

\* join(): false when the thread was already joined or detached.
JoinCall(c) ==
    /\ cpc[c] = Idle
    /\ tid_ # "unstarted"
    /\ NoJoinInProgress
    /\ IF Joinable(tid_)
       THEN /\ cpc' = [cpc EXCEPT ![c] = At("join", "blocked")]
            /\ lastReturn' = lastReturn
       ELSE /\ cpc' = cpc
            /\ lastReturn' = Called(c, "join", "false")
    /\ UNCHANGED <<started_, running_, tid_, condMutex, spc, spurious>>

\* join() returns true when the thread has terminated.
JoinReturn(c) ==
    /\ cpc[c] = At("join", "blocked")
    /\ spc = In("done", "done")
    /\ tid_' = "joined"
    /\ cpc' = [cpc EXCEPT ![c] = Idle]
    /\ lastReturn' = Called(c, "join", "true")
    /\ UNCHANGED <<started_, running_, condMutex, spc, spurious>>

\* detach(): true if successful.
Detach(c) ==
    /\ cpc[c] = Idle
    /\ tid_ # "unstarted"
    /\ NoJoinInProgress
    /\ IF tid_ = "joinable"
       THEN /\ tid_' = "detached"
            /\ lastReturn' = Called(c, "detach", "true")
       ELSE /\ tid_' = tid_
            /\ lastReturn' = Called(c, "detach", "false")
    /\ UNCHANGED <<started_, running_, condMutex, cpc, spc, spurious>>

\* announceStarted() and announceFinished() begin with Locker
\* lock(condition_).
SpLock ==
    /\ spc.at = "lock"
    /\ CondLock(Spawned)
    /\ spc' = [spc EXCEPT !.at = "announce"]
    /\ UNCHANGED <<started_, running_, tid_, cpc, lastReturn, spurious>>

\* announceStarted() signals the condition.
StartedWakes(ws) == Signalled(ws)

\* (variant: announceFinished wakes one waiting thread only)
FinishedWakesOne(ws) == Signalled(ws)

\* announceFinished() wakes every thread blocked in waitToFinish().
FinishedWakes(ws) == {ws}

\* announceStarted(): started_ and running_ are set; announceFinished():
\* running_ is cleared; the waiting callers are woken.
SpAnnounce ==
    /\ spc.at = "announce"
    /\ IF spc.in = "announceStarted"
       THEN /\ started_' = TRUE
            /\ running_' = TRUE
            /\ \E ws \in StartedWakes(CondWaiters) : CondWake(ws)
       ELSE /\ started_' = started_
            /\ running_' = FALSE
            /\ \E ws \in FinishedWakes(CondWaiters) : CondWake(ws)
    /\ spc' = [spc EXCEPT !.at = "unlock"]
    /\ UNCHANGED <<tid_, condMutex, lastReturn, spurious>>

\* The end of announceStarted() (run() follows) and of announceFinished().
SpUnlock ==
    /\ spc.at = "unlock"
    /\ CondUnlock(Spawned)
    /\ spc' = IF spc.in = "announceStarted"
              THEN In("run", "body") ELSE In("exit", "exit")
    /\ UNCHANGED <<started_, running_, tid_, cpc, lastReturn, spurious>>

\* run(), the body derived classes define, returns.
RunReturns ==
    /\ spc = In("run", "body")
    /\ spc' = In("announceFinished", "lock")
    /\ UNCHANGED <<started_, running_, tid_, condMutex, cpc, lastReturn,
                   spurious>>

\* runWrapper returns: the system thread terminates.
ThreadExit ==
    /\ spc = In("exit", "exit")
    /\ spc' = In("done", "done")
    /\ UNCHANGED <<started_, running_, tid_, condMutex, cpc, lastReturn,
                   spurious>>

(***************************************************************************)
(* Threading.h: Guard. Threads that construct a Guard around a section and *)
(* destroy it at the section's end; Lock(state) is                         *)
(* pthread_once(&onceControl_, Init) and then mutex_->lock() or            *)
(* mutex_->unlock().                                                       *)
(***************************************************************************)

\* Guard() { Lock(true); }
GuardCtorState == TRUE

\* ~Guard() { Lock(false); }
GuardDtorState == FALSE

\* A thread's position: outside, in Lock(state) at pthread_once, in Init,
\* at the lock or unlock, or in the protected section.
G(at, state) == [at |-> at, state |-> state]

Outside == G("out", FALSE)

\* The static members before any Guard is made.
GuardIdle ==
    /\ onceControl_ = "PTHREAD_ONCE_INIT"
    /\ guardMutexes = <<>>
    /\ gpc = [t \in Threads |-> Outside]

\* Guard sentry; the constructor calls Lock.
GuardCtor(t) ==
    /\ gpc[t] = Outside
    /\ gpc' = [gpc EXCEPT ![t] = G("once", GuardCtorState)]
    /\ UNCHANGED <<onceControl_, guardMutexes>>

\* (variant: a caller that finds the initialisation unfinished runs it too)
OnceRunsUntilDone(control) == control # "done"

\* pthread_once: the caller that finds the control untouched runs the init
\* routine.
OnceRuns(control) == control = "PTHREAD_ONCE_INIT"

\* pthread_once(&onceControl_, Init): run Init, return at once when it has
\* been run, and block while another thread runs it.
Once(t) ==
    /\ gpc[t].at = "once"
    /\ IF OnceRuns(onceControl_)
       THEN /\ onceControl_' = "inProgress"
            /\ gpc' = [gpc EXCEPT ![t] = [@ EXCEPT !.at = "init"]]
       ELSE /\ onceControl_ = "done"
            /\ onceControl_' = onceControl_
            /\ gpc' = [gpc EXCEPT ![t] = [@ EXCEPT !.at = "apply"]]
    /\ UNCHANGED guardMutexes

\* Guard::Init(): mutex_ = Mutex::Make(); pthread_once then returns.
GuardInit(t) ==
    /\ gpc[t].at = "init"
    /\ guardMutexes' = Append(guardMutexes, Unlocked)
    /\ onceControl_' = "done"
    /\ gpc' = [gpc EXCEPT ![t] = [@ EXCEPT !.at = "apply"]]

\* Lock(state), after pthread_once: mutex_->lock() or mutex_->unlock(). A
\* constructor whose lock() failed leaves no Guard.
LockApply(t) ==
    /\ gpc[t].at = "apply"
    /\ LET i == Len(guardMutexes)
       IN  IF gpc[t].state
           THEN \E o \in PthreadMutexLock(guardMutexes[i], t) :
                   /\ guardMutexes' = [guardMutexes EXCEPT ![i] = o.mtx]
                   /\ gpc' = [gpc EXCEPT ![t] = IF o.rc = "OK"
                                                THEN G("in", TRUE)
                                                ELSE Outside]
           ELSE \E o \in PthreadMutexUnlock(guardMutexes[i], t) :
                   /\ guardMutexes' = [guardMutexes EXCEPT ![i] = o.mtx]
                   /\ gpc' = [gpc EXCEPT ![t] = Outside]
    /\ UNCHANGED onceControl_

\* The section ends: the destructor calls Lock.
GuardDtor(t) ==
    /\ gpc[t].at = "in"
    /\ gpc' = [gpc EXCEPT ![t] = G("once", GuardDtorState)]
    /\ UNCHANGED <<onceControl_, guardMutexes>>

RuntimeIdle == ThreadCtor /\ GuardIdle

(***************************************************************************)
(* The specifications.                                                     *)
(***************************************************************************)

\* No handler is being dispatched step by step.
DispatchIdle ==
    /\ inPc = "idle"
    /\ inArg = [key |-> 0, msg |-> [time |-> 0, type |-> "none"]]
    /\ alPc = "idle"
    /\ alIt = End
    /\ alDropLimit = 0

Next ==
    \/ Tick /\ UNCHANGED <<replayVars, mutexVars, dispatchVars, runtimeVars>>
    \/ \E key \in Keys, msg \in TrackMsg, flags \in TrackFlags :
          /\ ProcessInput(key, msg, flags)
          /\ UNCHANGED <<replayVars, mutexVars, dispatchVars, runtimeVars>>
    \/ \E adv \in Advances :
          /\ ProcessAlarm(adv)
          /\ UNCHANGED <<replayVars, mutexVars, dispatchVars, runtimeVars>>
    \/ Reset /\ UNCHANGED <<replayVars, mutexVars, dispatchVars, runtimeVars>>
    \/ Shutdown /\ UNCHANGED <<replayVars, mutexVars, dispatchVars, runtimeVars>>

Init ==
    /\ Constructed
    /\ ReplayIdle
    /\ MutexIdle
    /\ DispatchIdle
    /\ RuntimeIdle

Spec == Init /\ [][Next]_vars

\* Threads calling the Mutex, Locker and Condition operations.
MutexInit ==
    /\ Constructed
    /\ hitsBeforePromote_ = 1
    /\ epoch_ = 0
    /\ ReplayIdle
    /\ MutexIdle
    /\ DispatchIdle
    /\ RuntimeIdle

notThreading == <<engineVars, replayVars, dispatchVars, runtimeVars>>

MutexNext ==
    \/ \E t \in Threads : MutexLock(t) /\ UNCHANGED notThreading
    \/ \E t \in Threads : MutexTryToLock(t) /\ UNCHANGED notThreading
    \/ \E t \in Threads : MutexUnlock(t) /\ UNCHANGED notThreading
    \/ \E t \in Threads, on \in {"mutex", "condition"} :
          LockerCtor(t, on) /\ UNCHANGED notThreading
    \/ \E t \in Threads, path \in ExitPaths :
          LockerDtor(t, path) /\ UNCHANGED notThreading
    \/ \E t \in Threads, call \in WaitCalls :
          WaitForSignal(t, call) /\ UNCHANGED notThreading
    \/ \E t \in Threads : Signal(t) /\ UNCHANGED notThreading
    \/ \E t \in Threads : Broadcast(t) /\ UNCHANGED notThreading
    \/ \E t \in Threads : SpuriousWakeup(t) /\ UNCHANGED notThreading
    \/ \E t \in Threads : Timeout(t) /\ UNCHANGED notThreading
    \/ \E t \in Threads : WaitReturn(t) /\ UNCHANGED notThreading

SpecMutex == MutexInit /\ [][MutexNext]_vars

(***************************************************************************)
(* processInput and processAlarm dispatched on two threads, statement by   *)
(* statement, each inside a Locker on the mutex that guards trackDatabase_ *)
(* and epoch_.                                                             *)
(***************************************************************************)

InputThread == 1
AlarmThread == 2

\* (variant: the handler is entered without taking the lock)
EnterUnlocked(t) == UNCHANGED mutexVars

\* The dispatch enters a handler: Locker lock(mutex).
EnterHandler(t) == LockerCtor(t, "mutex") /\ lastCall'.res = "ok"

\* The handler returns: the Locker's scope ends.
LeaveHandler(t) == LockerDtor(t, "return")

ghostVars == <<lastOp, lastFlags, consecutive, lastFolded, visited>>

\* processInput: the test of the flags.
InEnter(key, msg, flags) ==
    /\ inPc = "idle"
    /\ key \in DOMAIN trackDatabase_ =>
          Len(trackDatabase_[key]) < MaxDispatchHist
    /\ EnterHandler(InputThread)
    /\ inArg' = [key |-> key, msg |-> msg]
    /\ inPc' = IF ShouldUpdate(flags) THEN "find" ELSE "return"
    /\ UNCHANGED <<trackDatabase_, epoch_, hitsBeforePromote_, missesBeforeDrop_,
                   rotationDuration,
                   now, sent, ghostVars, replayVars, runtimeVars, alPc, alIt, alDropLimit>>

\* updateDatabase: find, and insert when absent.
InFind ==
    /\ inPc = "find"
    /\ trackDatabase_' = FindOrInsert(trackDatabase_, inArg.key)
    /\ inPc' = "push"
    /\ UNCHANGED <<epoch_, hitsBeforePromote_, missesBeforeDrop_,
                   rotationDuration, now, sent,
                   ghostVars, replayVars, runtimeVars, mutexVars, inArg, alPc, alIt,
                   alDropLimit>>

\* updateDatabase: push_back. (An entry a concurrent sweep has erased is a
\* dangling iterator; it is inserted again here.)
InPush ==
    /\ inPc = "push"
    /\ trackDatabase_' =
          PushBack(FindOrInsert(trackDatabase_, inArg.key), inArg.key, inArg.msg)
    /\ inPc' = "epoch"
    /\ UNCHANGED <<epoch_, hitsBeforePromote_, missesBeforeDrop_,
                   rotationDuration, now, sent,
                   ghostVars, replayVars, runtimeVars, mutexVars, inArg, alPc, alIt,
                   alDropLimit>>

\* updateDatabase: the new offset.
InEpoch ==
    /\ inPc = "epoch"
    /\ epoch_' = NewEpoch(now, inArg.msg)
    /\ inPc' = "return"
    /\ UNCHANGED <<trackDatabase_, hitsBeforePromote_, missesBeforeDrop_,
                   rotationDuration, now,
                   sent, ghostVars, replayVars, runtimeVars, mutexVars, inArg, alPc, alIt,
                   alDropLimit>>

InReturn ==
    /\ inPc = "return"
    /\ LeaveHandler(InputThread)
    /\ inPc' = "idle"
    /\ inArg' = [key |-> 0, msg |-> [time |-> 0, type |-> "none"]]
    /\ UNCHANGED <<engineVars, replayVars, runtimeVars, alPc, alIt, alDropLimit>>

\* processAlarm is entered.
AlEnter ==
    /\ alPc = "idle"
    /\ EnterHandler(AlarmThread)
    /\ alPc' = "begin"
    /\ UNCHANGED <<engineVars, replayVars, runtimeVars, inPc, inArg, alIt, alDropLimit>>

\* checkDatabase: dropLimit and the iterator at begin().
AlBegin ==
    /\ alPc = "begin"
    /\ alDropLimit' = DropLimit(missesBeforeDrop_)
    /\ alIt' = Begin(trackDatabase_)
    /\ sent' = <<>>
    /\ alPc' = "loop"
    /\ UNCHANGED <<trackDatabase_, epoch_, hitsBeforePromote_, missesBeforeDrop_,
                   rotationDuration,
                   now, ghostVars, replayVars, runtimeVars, mutexVars, inPc, inArg>>

\* (variant: the drop duration is computed again for every entry)
CycleDropLimitLive == DropLimit(missesBeforeDrop_)

\* The dropLimit the loop body compares against: the local of checkDatabase.
CycleDropLimit == alDropLimit

\* checkDatabase: one iteration of the loop. back() of an empty vector is
\* undefined: any message.
AlStep ==
    /\ alPc = "loop"
    /\ alIt # End
    /\ alIt \in DOMAIN trackDatabase_
    /\ \E tracks \in (IF trackDatabase_[alIt] = <<>>
                       THEN {<<m>> : m \in TrackMsg}
                       ELSE {trackDatabase_[alIt]}) :
          LET db == [trackDatabase_ EXCEPT ![alIt] = tracks]
          IN  /\ sent' = Send(sent, EntryReport(alIt, tracks, epoch_, now,
                                                CycleDropLimit,
                                                hitsBeforePromote_))
              /\ trackDatabase_' =
                    IF Droppable(tracks, epoch_, now, CycleDropLimit)
                    THEN EntryDatabase(db, alIt, epoch_, now, CycleDropLimit)
                    ELSE trackDatabase_
    /\ alIt' = Incr(trackDatabase_, alIt)
    /\ UNCHANGED <<epoch_, hitsBeforePromote_, missesBeforeDrop_,
                   rotationDuration, now, ghostVars,
                   replayVars, runtimeVars, mutexVars, inPc, inArg, alPc, alDropLimit>>

\* checkDatabase: the loop ends, and processAlarm returns.
AlReturn ==
    /\ alPc = "loop"
    /\ alIt = End
    /\ LeaveHandler(AlarmThread)
    /\ alPc' = "idle"
    /\ alDropLimit' = 0
    /\ UNCHANGED <<engineVars, replayVars, runtimeVars, inPc, inArg, alIt>>

DispatchInit ==
    /\ Constructed
    /\ hitsBeforePromote_ = 1
    /\ ReplayIdle
    /\ MutexIdle
    /\ DispatchIdle
    /\ RuntimeIdle

DispatchNext ==
    \/ Tick /\ UNCHANGED <<replayVars, mutexVars, dispatchVars, runtimeVars>>
    \/ \E key \in Keys, msg \in TrackMsg, flags \in TrackFlags :
          InEnter(key, msg, flags)
    \/ InFind
    \/ InPush
    \/ InEpoch
    \/ InReturn
    \/ AlEnter
    \/ AlBegin
    \/ AlStep
    \/ AlReturn

SpecDispatch == DispatchInit /\ [][DispatchNext]_vars

(***************************************************************************)
(* The same dispatch while the configuration changes: missesBeforeDrop_ is *)
(* a registered parameter and the rotation duration belongs to RadarConfig,*)
(* so both can be set by a party that takes no part in the handlers.       *)
(***************************************************************************)

\* The values a reconfiguration can set.
Reconfigurable == 1..MaxReconfig

\* A parameter change sets missesBeforeDrop_.
SetMissesBeforeDrop(v) ==
    /\ v # missesBeforeDrop_
    /\ missesBeforeDrop_' = v
    /\ UNCHANGED <<trackDatabase_, epoch_, hitsBeforePromote_, rotationDuration,
                   now, sent, ghostVars, replayVars, mutexVars, dispatchVars,
                   runtimeVars>>

\* A new radar configuration sets the rotation duration.
SetRotationDuration(v) ==
    /\ v # rotationDuration
    /\ rotationDuration' = v
    /\ UNCHANGED <<trackDatabase_, epoch_, hitsBeforePromote_, missesBeforeDrop_,
                   now, sent, ghostVars, replayVars, mutexVars, dispatchVars,
                   runtimeVars>>

ReconfigNext ==
    \/ Tick /\ UNCHANGED <<replayVars, mutexVars, dispatchVars, runtimeVars>>
    \/ \E key \in Keys, msg \in TrackMsg, flags \in TrackFlags :
          InEnter(key, msg, flags)
    \/ InFind
    \/ InPush
    \/ InEpoch
    \/ InReturn
    \/ AlEnter
    \/ AlBegin
    \/ AlStep
    \/ AlReturn
    \/ \E v \in Reconfigurable : SetMissesBeforeDrop(v)
    \/ \E v \in Reconfigurable : SetRotationDuration(v)

SpecReconfig == DispatchInit /\ [][ReconfigNext]_vars

(***************************************************************************)
(* Two runs of the algorithm side by side: the same handlers at the same   *)
(* wall-clock times with the same track numbers, the second run's          *)
(* extraction times all earlier by ReplayShift (recorded data played back).*)
(***************************************************************************)

Shifted(msg) == [msg EXCEPT !.time = @ - ReplayShift]

ReplayInit ==
    /\ Constructed
    /\ MutexIdle
    /\ DispatchIdle
    /\ RuntimeIdle
    /\ replayDatabase = <<>>
    /\ replayEpoch \in UninitEpoch
    /\ replaySent = <<>>

ReplayTick == Tick /\ UNCHANGED <<replayVars, mutexVars, dispatchVars, runtimeVars>>

ReplayProcessInput(key, msg, flags) ==
    /\ ProcessInput(key, msg, flags)
    /\ IF ShouldUpdate(flags)
       THEN /\ replayDatabase' = UpdateDatabase(replayDatabase, key, Shifted(msg))
            /\ replayEpoch' = NewEpoch(now, Shifted(msg))
       ELSE UNCHANGED <<replayDatabase, replayEpoch>>
    /\ replaySent' = <<>>

ReplayProcessAlarm(adv) ==
    /\ ProcessAlarm(adv)
    /\ LET r == CheckDatabase(replayDatabase, replayEpoch, now, adv,
                              missesBeforeDrop_, hitsBeforePromote_)
       IN  /\ replayDatabase' = r.db
           /\ replaySent' = r.sent
    /\ UNCHANGED replayEpoch

ReplayReset ==
    /\ Reset
    /\ replayDatabase' = <<>>
    /\ replaySent' = <<>>
    /\ UNCHANGED replayEpoch

ReplayNext ==
    \/ ReplayTick
    \/ \E key \in Keys, msg \in TrackMsg, flags \in TrackFlags :
          /\ ReplayProcessInput(key, msg, flags)
          /\ UNCHANGED <<mutexVars, dispatchVars, runtimeVars>>
    \/ \E adv \in Advances :
          /\ ReplayProcessAlarm(adv)
          /\ UNCHANGED <<mutexVars, dispatchVars, runtimeVars>>
    \/ ReplayReset /\ UNCHANGED <<mutexVars, dispatchVars, runtimeVars>>

SpecReplay == ReplayInit /\ [][ReplayNext]_vars

(***************************************************************************)
(* Callers using one Thread instance while its spawned thread runs.        *)
(***************************************************************************)

ThreadInit ==
    /\ Constructed
    /\ hitsBeforePromote_ = 1
    /\ epoch_ = 0
    /\ ReplayIdle
    /\ MutexIdle
    /\ DispatchIdle
    /\ RuntimeIdle

notThread == <<engineVars, replayVars, mutexVars, dispatchVars, guardVars>>

\* pthread_create's results: success, or an error.
CreateResults == {"OK", "EAGAIN"}

\* A step of caller c inside start() or waitToFinish().
CallerStep(c) ==
    /\ \/ \E rc \in CreateResults : StartCreate(c, rc)
       \/ Check(c)
       \/ Wait(c)
       \/ Resume(c)
    /\ UNCHANGED notThread

\* A step of the spawned thread outside run().
SpawnedStep ==
    /\ \/ SpLock
       \/ SpAnnounce
       \/ SpUnlock
       \/ ThreadExit
    /\ UNCHANGED notThread

ThreadNext ==
    \/ \E c \in Callers, op \in {"start", "waitToFinish"} :
          Enter(c, op) /\ UNCHANGED notThread
    \/ \E c \in Callers, rc \in CreateResults :
          StartCreate(c, rc) /\ UNCHANGED notThread
    \/ \E c \in Callers : Check(c) /\ UNCHANGED notThread
    \/ \E c \in Callers : Wait(c) /\ UNCHANGED notThread
    \/ \E c \in Callers : Resume(c) /\ UNCHANGED notThread
    \/ \E c \in Callers : SpuriousWake(c) /\ UNCHANGED notThread
    \/ \E c \in Callers : JoinCall(c) /\ UNCHANGED notThread
    \/ \E c \in Callers : JoinReturn(c) /\ UNCHANGED notThread
    \/ \E c \in Callers : Detach(c) /\ UNCHANGED notThread
    \/ SpLock /\ UNCHANGED notThread
    \/ SpAnnounce /\ UNCHANGED notThread
    \/ SpUnlock /\ UNCHANGED notThread
    \/ RunReturns /\ UNCHANGED notThread
    \/ ThreadExit /\ UNCHANGED notThread

SpecThread == ThreadInit /\ [][ThreadNext]_vars

\* The scheduler runs every thread that can take a step: a caller inside
\* start() or waitToFinish() and the spawned thread outside run() are not
\* starved, also of the mutex they contend for. Whether run() returns is up
\* to the body.
SpecThreadLive ==
    /\ ThreadInit
    /\ [][ThreadNext]_vars
    /\ \A c \in Callers : SF_vars(CallerStep(c))
    /\ SF_vars(SpawnedStep)

(***************************************************************************)
(* Threads racing to construct Guards.                                     *)
(***************************************************************************)

notGuard == <<engineVars, replayVars, mutexVars, dispatchVars, threadVars>>

GuardNext ==
    \/ \E t \in Threads : GuardCtor(t) /\ UNCHANGED notGuard
    \/ \E t \in Threads : Once(t) /\ UNCHANGED notGuard
    \/ \E t \in Threads : GuardInit(t) /\ UNCHANGED notGuard
    \/ \E t \in Threads : LockApply(t) /\ UNCHANGED notGuard
    \/ \E t \in Threads : GuardDtor(t) /\ UNCHANGED notGuard

SpecGuard == ThreadInit /\ [][GuardNext]_vars

(***************************************************************************)
(* Properties of the maintenance engine.                                   *)
(***************************************************************************)

\* A step of the maintenance cycle.
AlarmStep == lastOp' = "processAlarm" /\ \E adv \in Advances : ProcessAlarm(adv)

\* The number of reports of a cycle for one key, and those with one flag.
ReportsFor(out, k) == Cardinality({i \in 1..Len(out) : out[i].key = k})

ReportsWith(out, k, f) ==
    Cardinality({i \in 1..Len(out) : out[i].key = k /\ out[i].flags = f})

\* The claims' conditions on an entity k of the collection, stated on the
\* state: tentative with enough observations; not seen for too long.
ReachedThreshold(k) ==
    /\ k \in DOMAIN trackDatabase_
    /\ trackDatabase_[k][Len(trackDatabase_[k])].type = "kTentative"
    /\ Len(trackDatabase_[k]) >= hitsBeforePromote_

Stale(k) ==
    /\ k \in DOMAIN trackDatabase_
    /\ now - (epoch_ + trackDatabase_[k][Len(trackDatabase_[k])].time)
          > RotationDuration * missesBeforeDrop_

\* C1: when two maintenance cycles run with no observation between them,
\* the second one emits no report.
C1_Idempotent == consecutive => sent = <<>>

\* C2: an entity that is tentative with enough observations and is kept by
\* the cycle gets exactly one promoted report, and is confirmed afterwards.
C2_Promotion ==
    [][AlarmStep =>
         \A k \in Keys :
            (ReachedThreshold(k) /\ k \in DOMAIN trackDatabase_') =>
               /\ ReportsWith(sent', k, "kPromoted") = 1
               /\ trackDatabase_'[k][Len(trackDatabase_'[k])].type = "kConfirmed"
      ]_vars

\* C3: an entity that is stale when the cycle runs gets exactly one dropping
\* report and is removed; a key that is not in the collection gets no
\* report, and comes back only by an observation of that key.
C3_Eviction ==
    [][/\ AlarmStep =>
            \A k \in Keys :
               /\ Stale(k) => /\ ReportsWith(sent', k, "kDropping") = 1
                              /\ k \notin DOMAIN trackDatabase_'
               /\ k \notin DOMAIN trackDatabase_ =>
                              /\ ReportsFor(sent', k) = 0
                              /\ k \notin DOMAIN trackDatabase_'
       /\ \A k \in Keys :
            (k \notin DOMAIN trackDatabase_ /\ k \in DOMAIN trackDatabase_') =>
               \E msg \in TrackMsg, flags \in {"kNew", "kCorrected"} :
                  ProcessInput(k, msg, flags)
      ]_vars

C3_Witness ==
    /\ lastOp = "processAlarm"
    /\ trackDatabase_ # <<>>
    /\ \E i \in 1..Len(sent) :
          /\ sent[i].flags = "kDropping"
          /\ sent[i].key \notin DOMAIN trackDatabase_

\* C4: a cycle emits at most one report per entity; an entity that is both
\* promotable and stale gets the dropping report only, and is removed.
C4_OneReport ==
    [][AlarmStep =>
         \A k \in Keys :
            /\ ReportsFor(sent', k) <= 1
            /\ (ReachedThreshold(k) /\ Stale(k)) =>
                  /\ ReportsFor(sent', k) = 1
                  /\ ReportsWith(sent', k, "kDropping") = 1
                  /\ k \notin DOMAIN trackDatabase_'
      ]_vars

C4_Witness ==
    /\ lastOp = "processAlarm"
    /\ hitsBeforePromote_ = 1
    /\ \E i \in 1..Len(sent) :
          /\ sent[i].flags = "kDropping"
          /\ sent[i].type = "kTentative"
          /\ sent[i].key \notin DOMAIN trackDatabase_

\* C6: once an observation has been folded in, the offset is the wall time
\* of the most recently folded observation minus its event time, after any
\* handler (a cycle or a reset leaves it alone).
C6_Offset == lastFolded # NoFold => epoch_ = lastFolded.at - lastFolded.time

C6_Witness ==
    /\ lastFolded # NoFold
    /\ lastOp = "processAlarm"
    /\ now > lastFolded.at
    /\ \E k \in DOMAIN trackDatabase_ :
          trackDatabase_[k][Len(trackDatabase_[k])].time # lastFolded.time
    /\ epoch_ = lastFolded.at - lastFolded.time

\* The keys and kinds of a sequence of reports.
Kinds(out) == [i \in 1..Len(out) |-> <<out[i].key, out[i].flags>>]

\* C7: two runs that differ only by a constant shift of the event times emit
\* the same promoted and dropping reports in every cycle and hold the same
\* keys.
C7_Replay ==
    /\ Kinds(replaySent) = Kinds(sent)
    /\ DOMAIN replayDatabase = DOMAIN trackDatabase_

C7_Witness ==
    /\ lastOp = "processAlarm"
    /\ \E i, j \in 1..Len(sent) :
          sent[i].flags = "kDropping" /\ sent[j].flags = "kPromoted"
    /\ \E i \in 1..Len(replaySent) :
          replaySent[i].flags = "kDropping" /\ replaySent[i].time < 0
    /\ DOMAIN replayDatabase = DOMAIN trackDatabase_
    /\ trackDatabase_ # <<>>

\* C8: an observation whose flag is neither new nor corrected changes
\* neither the collection nor the offset.
C8_Filter ==
    [][(lastOp' = "processInput" /\ lastFlags' \notin {"kNew", "kCorrected"}) =>
          (trackDatabase_' = trackDatabase_ /\ epoch_' = epoch_)
      ]_vars

C8_Witness ==
    /\ lastOp = "processInput"
    /\ lastFlags = "kPredicted"
    /\ trackDatabase_ # <<>>
    /\ Cardinality(DOMAIN trackDatabase_) < MaxKey

\* C5: processInput and processAlarm on two threads are serialized by the
\* lock: the sweep never runs while an update is between its steps (entry
\* inserted, record appended, offset not yet set), no update runs during a
\* sweep, and the thread inside a handler is the one that holds the mutex.
C5_Linearized ==
    /\ ~(inPc # "idle" /\ alPc # "idle")
    /\ inPc # "idle" => mutex.owner = InputThread
    /\ alPc # "idle" => mutex.owner = AlarmThread
    /\ alPc # "idle" => \A k \in DOMAIN trackDatabase_ : trackDatabase_[k] # <<>>

C5_Witness ==
    /\ alPc = "loop"
    /\ alIt # End
    /\ alIt # Begin(trackDatabase_)
    /\ inPc = "idle"
    /\ mutex.owner = AlarmThread
    /\ Len(sent) > 0

\* C19: after reset() and after shutdown() the collection is empty, and
\* a maintenance cycle that runs before any further observation (right
\* after the call, or later with the collection still empty) emits no
\* report and leaves the collection empty.
C19_Clear ==
    [][/\ lastOp' \in {"reset", "shutdown"} =>
             (trackDatabase_' = <<>> /\ sent' = <<>>)
       /\ (/\ AlarmStep
           /\ lastOp \in {"reset", "shutdown"} \/ trackDatabase_ = <<>>) =>
             (sent' = <<>> /\ trackDatabase_' = <<>>)
      ]_vars

\* A cycle ran at the very time of the last observation and found nothing:
\* the observation was cleared away, not dropped.
C19_Witness ==
    /\ lastOp = "processAlarm"
    /\ ~consecutive
    /\ lastFolded # NoFold
    /\ lastFolded.at = now
    /\ trackDatabase_ = <<>>
    /\ sent = <<>>

\* The keys a cycle reported as dropping.
Evicted(out) ==
    {out[i].key : i \in {j \in 1..Len(out) : out[j].flags = "kDropping"}}

\* C20: a cycle runs its loop body once for every key that is in the
\* collection when the cycle starts (no key twice, none left out, no other
\* key), whichever of them it evicts; afterwards the collection holds the
\* keys that were not evicted, with their histories as they were.
C20_Traversal ==
    [][AlarmStep =>
         /\ Len(visited') = Cardinality(DOMAIN trackDatabase_)
         /\ {visited'[i] : i \in 1..Len(visited')} = DOMAIN trackDatabase_
         /\ Evicted(sent') \subseteq DOMAIN trackDatabase_
         /\ DOMAIN trackDatabase_' = DOMAIN trackDatabase_ \ Evicted(sent')
         /\ \A k \in DOMAIN trackDatabase_' :
               trackDatabase_'[k] = trackDatabase_[k]
      ]_vars

C20_Witness ==
    /\ lastOp = "processAlarm"
    /\ Len(visited) = MaxKey
    /\ visited[1] \notin DOMAIN trackDatabase_
    /\ visited[MaxKey] \in DOMAIN trackDatabase_
    /\ visited[1] \in Evicted(sent)

(***************************************************************************)
(* Properties of the Threading primitives.                                 *)
(***************************************************************************)

Holders == {t \in Threads : holds[t] > 0}

\* C9: unlock() by a thread that does not hold the mutex (it is unlocked, or
\* another thread holds it) fails with FailedUnlock and leaves the mutex as
\* it was; at most one thread holds the mutex at any time.
C9_Unlock ==
    [][/\ \A t \in Threads :
            (MutexUnlock(t) /\ holds[t] = 0) =>
               /\ lastCall' = Called(t, "unlock", "FailedUnlock")
               /\ mutex' = mutex
               /\ holds' = holds
       /\ Cardinality({t \in Threads : holds'[t] > 0}) <= 1
       /\ \A t \in Threads : holds'[t] > 0 => mutex'.owner = t
      ]_vars

C9_Witness ==
    /\ lastCall.op = "unlock"
    /\ lastCall.res = "FailedUnlock"
    /\ mutex.owner # NoThread
    /\ mutex.owner # lastCall.thread
    /\ Holders = {mutex.owner}

\* C10 as stated: a thread with a live Locker holds the mutex from the end
\* of the constructor until the destructor, and does not hold it once the
\* scope is left.
C10_HeldThroughout ==
    /\ \A t \in Threads : lockers[t] # "none" => mutex.owner = t
    /\ lastCall.op = "~Locker" => mutex.owner # lastCall.thread

\* C10, amended: a thread with a live Locker holds the mutex except while it
\* is blocked in a wait on the Condition inside the scope; when the scope
\* is left, by return, early return or failure, that thread no longer holds
\* the mutex.
C10_ScopedLock ==
    [][/\ \A t \in Threads :
            (lockers'[t] # "none" /\ tpc'[t] = "ready") =>
               (mutex'.owner = t /\ holds'[t] = 1)
       /\ \A t \in Threads :
            (lockers[t] # "none" /\ lockers'[t] = "none") =>
               (mutex'.owner # t /\ holds'[t] = 0)
      ]_vars

C10_Witness ==
    /\ lastCall.op = "~Locker"
    /\ lastCall.res = "failure"
    /\ holds[lastCall.thread] = 0
    /\ mutex.owner # lastCall.thread
    /\ \E t \in Threads : lockers[t] = "condition" /\ tpc[t] = "waiting"

\* The causes of a return from a wait.
WakeCauses == {"signal", "broadcast", "timeout", "spurious"}

\* C11: a thread that returns from waitForSignal or timedWaitForSignal,
\* whatever woke it, holds the mutex; a thread blocked in the wait does not
\* hold it; timedWaitForSignal returns false when the duration elapsed with
\* no wake-up, and true otherwise.
C11_WaitReturn ==
    [][/\ \A w \in Threads :
            (tpc[w] = "woken" /\ tpc'[w] = "ready") =>
               /\ mutex'.owner = w
               /\ holds'[w] = 1
               /\ waits[w].by \in WakeCauses
               /\ lastCall'.thread = w
               /\ lastCall'.op = waits[w].call
               /\ waits[w].call = "waitForSignal" => lastCall'.res = "ok"
               /\ waits[w].call = "timedWaitForSignal" =>
                     /\ lastCall'.res \in {"true", "false"}
                     /\ lastCall'.res = "false" <=> waits[w].by = "timeout"
       /\ \A w \in Threads :
            tpc'[w] \in {"waiting", "woken"} =>
               (mutex'.owner # w /\ holds'[w] = 0)
      ]_vars

C11_Witness ==
    /\ lastCall.op = "timedWaitForSignal"
    /\ lastCall.res = "false"
    /\ mutex.owner = lastCall.thread
    /\ \E w \in Threads : tpc[w] = "woken" /\ waits[w].by = "broadcast"
    /\ \E w \in Threads : tpc[w] = "waiting"

\* The threads a step wakes from their wait, by cause, and the threads
\* whose wait call returns in a step.
WokenBy(cause) ==
    {w \in Threads :
        tpc[w] = "waiting" /\ tpc'[w] = "woken" /\ waits'[w].by = cause}

Resumed == {w \in Threads : tpc[w] = "woken" /\ tpc'[w] = "ready"}

C17_TryToLock ==
    [][\A t \in Threads :
         /\ (tpc[t] = "ready" /\ lockers[t] = "none" /\ holds[t] < MaxCount) =>
               ENABLED MutexTryToLock(t)
         /\ MutexTryToLock(t) =>
               /\ tpc'[t] = "ready"
               /\ lastCall'.thread = t
               /\ lastCall'.op = "tryToLock"
               /\ mutex.owner = NoThread =>
                     /\ lastCall'.res = "true"
                     /\ mutex' = [owner |-> t, count |-> 1]
                     /\ holds' = [holds EXCEPT ![t] = @ + 1]
               /\ mutex.owner \notin {NoThread, t} =>
                     /\ lastCall'.res = "false"
                     /\ mutex' = mutex
                     /\ holds' = holds
               /\ mutex.owner = t =>
                     /\ lastCall'.res = "FailedLock"
                     /\ mutex' = mutex
                     /\ holds' = holds
      ]_vars

C17_Witness ==
    /\ lastCall.op = "tryToLock"
    /\ lastCall.res = "FailedLock"
    /\ mutex.owner = lastCall.thread
    /\ holds[lastCall.thread] = 1
    /\ \E w \in Threads : tpc[w] = "woken"

(***************************************************************************)
(* Properties of Thread.                                                   *)
(***************************************************************************)

\* The spawned thread has set its flags in announceStarted.
HasAnnouncedStarted ==
    spc.in \in {"run", "announceFinished", "exit", "done"}
       \/ spc = [in |-> "announceStarted", at |-> "unlock"]

\* C12: when start() returns normally the spawned thread exists and has
\* announced "started"; a caller blocks in start() only after the thread
\* was created, and when creation fails start() reports FailedCreate
\* without having blocked and without a spawned thread.
C12_StartBlocks ==
    [][\A c \in Callers :
         /\ (cpc[c].op = "start" /\ cpc'[c].op = "none") =>
               /\ lastReturn'.thread = c
               /\ lastReturn'.op = "start"
               /\ lastReturn'.res \in {"ok", "FailedCreate"}
               /\ lastReturn'.res = "ok" =>
                     (started_' /\ tid_' # "unstarted" /\ HasAnnouncedStarted')
               /\ lastReturn'.res = "FailedCreate" =>
                     (cpc[c].at = "create" /\ tid_' = "unstarted"
                         /\ spc' = [in |-> "none", at |-> "none"])
         /\ (/\ cpc'[c].op = "start"
             /\ cpc'[c].at \in {"wait", "waiting", "woken"}) =>
               /\ tid_' # "unstarted"
               /\ cpc'[c].at # "wait" => condMutex'.owner # c
      ]_vars

C12_Witness ==
    /\ lastReturn.op = "start"
    /\ lastReturn.res = "ok"
    /\ cpc[lastReturn.thread].op = "none"
    /\ spurious > 0
    /\ started_
    /\ running_
    /\ spc = [in |-> "run", at |-> "body"]

Phase(created, started, running) ==
    IF running THEN 2
    ELSE IF started THEN 3
    ELSE IF created THEN 1 ELSE 0

\* How far the spawned thread is in runWrapper.
Progress(part) ==
    CASE part = "none" -> 0
      [] part = "announceStarted" -> 1
      [] part = "run" -> 2
      [] part = "announceFinished" -> 3
      [] part = "exit" -> 4
      [] part = "done" -> 5

BlockedInWaitToFinish(c) ==
    cpc[c].op = "waitToFinish" /\ cpc[c].at \in {"wait", "waiting", "woken"}

InSection ==
    {t \in Threads :
        gpc[t].at = "in" \/ (gpc[t].state = FALSE /\ gpc[t].at # "out")}

\* C18: Guard::Init makes the shared mutex once, however the threads race
\* through their first constructor; a thread that is past pthread_once finds
\* that one mutex; a thread in a protected section owns it, and at most one
\* thread is in a protected section.
C18_Guard ==
    /\ Len(guardMutexes) <= 1
    /\ Len(guardMutexes) = 1 <=> onceControl_ = "done"
    /\ \A t \in Threads :
          gpc[t].at \in {"apply", "in"} => Len(guardMutexes) = 1
    /\ \A t \in InSection : guardMutexes[1].owner = t
    /\ Cardinality(InSection) <= 1

C18_Witness ==
    /\ Len(guardMutexes) = 1
    /\ \E a, b, c \in Threads :
          /\ gpc[a].at = "in"
          /\ gpc[b] = [at |-> "apply", state |-> TRUE]
          /\ gpc[c] = [at |-> "once", state |-> TRUE]

(***************************************************************************)
(* C21: the drop duration is read once at the start of a cycle             *)
(***************************************************************************)

\* checkDatabase has evaluated the entry at its iterator in this step.
Evaluated == alPc = "loop" /\ alIt # End /\ alIt' # alIt

\* How long the entry k has gone without an update, by the virtual clock.
Silence(k) == now - (epoch_ + Back(trackDatabase_[k]).time)

\* C21: the drop duration is rotation duration times missesBeforeDrop_ as
\* they are when the cycle starts; no step of the cycle changes it, a
\* reconfiguration during the cycle included; and every entry the cycle
\* evaluates is evicted exactly when its silence exceeds that value, whatever
\* the configuration has become in the meantime.
C21_DropLimitPerCycle ==
    [][/\ (alPc = "begin" /\ alPc' = "loop") =>
             alDropLimit' = rotationDuration * missesBeforeDrop_
       /\ (alPc = "loop" /\ alPc' = "loop") => alDropLimit' = alDropLimit
       /\ (Evaluated /\ trackDatabase_[alIt] # <<>>) =>
             (alIt \notin DOMAIN trackDatabase_' <=>
                 Silence(alIt) > alDropLimit)]_vars

\* A cycle is under way, the configuration has changed since it started, and
\* the cycle has evicted an entry that the new drop duration would keep.
C21_Witness ==
    /\ alPc = "loop"
    /\ rotationDuration * missesBeforeDrop_ # alDropLimit
    /\ \E i \in 1..Len(sent) :
          /\ sent[i].flags = "kDropping"
          /\ now - (epoch_ + sent[i].time) > alDropLimit
          /\ now - (epoch_ + sent[i].time)
                <= rotationDuration * missesBeforeDrop_

(***************************************************************************)
(* C22: what a folded observation changes                                  *)
(***************************************************************************)

\* The flags processInput folds into the database.
Folded == {"kNew", "kCorrected"}

\* This step is processInput of msg for key, and it folds the message in.
Observes(key, msg) ==
    /\ lastOp' = "processInput"
    /\ lastFlags' \in Folded
    /\ now' = now
    /\ ProcessInput(key, msg, lastFlags')

\* The history of key before the step; none when the key is absent.
Before(key) ==
    IF key \in DOMAIN trackDatabase_ THEN trackDatabase_[key] ELSE <<>>

\* C22: a folded observation of msg for key leaves key with its earlier
\* history, in order, followed by msg (so exactly <<msg>> when the key was
\* absent), adds no other key, removes none, and leaves every other history
\* as it was.
C22_Observe ==
    [][\A key \in Keys, msg \in TrackMsg :
          Observes(key, msg) =>
             /\ DOMAIN trackDatabase_' = DOMAIN trackDatabase_ \cup {key}
             /\ Len(trackDatabase_'[key]) = Len(Before(key)) + 1
             /\ trackDatabase_'[key][Len(Before(key)) + 1] = msg
             /\ \A i \in 1..Len(Before(key)) :
                   trackDatabase_'[key][i] = Before(key)[i]
             /\ \A k \in DOMAIN trackDatabase_ \ {key} :
                   trackDatabase_'[k] = trackDatabase_[k]
      ]_vars

\* An observation has just been folded into a collection that holds another
\* key as well, and one history has two different records in it.
C22_Witness ==
    /\ lastOp = "processInput"
    /\ lastFlags \in Folded
    /\ lastFolded.at = now
    /\ Cardinality(DOMAIN trackDatabase_) >= 2
    /\ \E k \in DOMAIN trackDatabase_ :
          /\ Len(trackDatabase_[k]) >= 2
          /\ trackDatabase_[k][1] # trackDatabase_[k][2]
          /\ trackDatabase_[k][Len(trackDatabase_[k])].time = lastFolded.time

(***************************************************************************)
(* C23: no entry has an empty history                                      *)
(***************************************************************************)

\* C23: every key of the collection has at least one record in its
\* history, so the latest record of every entry exists.
C23_NonEmpty ==
    \A k \in DOMAIN trackDatabase_ :
       /\ Len(trackDatabase_[k]) >= 1
       /\ trackDatabase_[k][Len(trackDatabase_[k])] \in TrackMsg

\* A cycle has read the latest record of the entries and kept one of them,
\* created by a single observation.
C23_Witness ==
    /\ lastOp = "processAlarm"
    /\ visited # <<>>
    /\ \E k \in DOMAIN trackDatabase_ :
          /\ Len(trackDatabase_[k]) = 1
          /\ \E i \in 1..Len(visited) : visited[i] = k

(***************************************************************************)
(* C24: what a maintenance cycle changes                                   *)
(***************************************************************************)

\* The type of the latest stored record of k.
LatestType(k) == trackDatabase_[k][Len(trackDatabase_[k])].type

\* C24: a cycle adds no key; every key it keeps has the history it had
\* before (same length, same records, same types); the keys it removes are
\* the ones it sent a dropping report for; the offset is unchanged; and a
\* promoted report is sent only for an entry whose latest stored record is
\* tentative, and for every kept one with enough records.
C24_CycleFrame ==
    [][AlarmStep =>
         /\ DOMAIN trackDatabase_' \subseteq DOMAIN trackDatabase_
         /\ \A k \in DOMAIN trackDatabase_' :
               /\ Len(trackDatabase_'[k]) = Len(trackDatabase_[k])
               /\ \A i \in 1..Len(trackDatabase_[k]) :
                     trackDatabase_'[k][i] = trackDatabase_[k][i]
         /\ \A k \in DOMAIN trackDatabase_ :
               /\ k \notin DOMAIN trackDatabase_' <=>
                     ReportsWith(sent', k, "kDropping") = 1
               /\ ReportsWith(sent', k, "kPromoted") >= 1 =>
                     LatestType(k) = "kTentative"
               /\ (/\ k \in DOMAIN trackDatabase_'
                   /\ LatestType(k) = "kTentative"
                   /\ Len(trackDatabase_[k]) >= hitsBeforePromote_) =>
                     ReportsWith(sent', k, "kPromoted") = 1
         /\ epoch_' = epoch_
      ]_vars

\* A cycle has dropped one entry and promoted another, and the promoted one
\* is still stored as tentative.
C24_Witness ==
    /\ lastOp = "processAlarm"
    /\ \E i, j \in 1..Len(sent) :
          /\ sent[i].flags = "kDropping"
          /\ sent[i].key \notin DOMAIN trackDatabase_
          /\ sent[j].flags = "kPromoted"
          /\ sent[j].key \in DOMAIN trackDatabase_
          /\ LatestType(sent[j].key) = "kTentative"


====
